---- MODULE Spec2Model ----
(***************************************************************************)
(* A model of the zoo registry (zoo/zoo.py), its events (zoo/events.py),   *)
(* its entities (zoo/core.py, zoo/staff.py) and its persistence adapter    *)
(* (zoo/storage.py).                                                       *)
(*                                                                         *)
(* Time is counted in whole ticks.  A datetime is a tick number, a         *)
(* timedelta a number of ticks, and a calendar day holds DayLen ticks, so  *)
(* datetime.date() is t \div DayLen and strftime('%H:%M') is t % DayLen.   *)
(*                                                                         *)
(* Python objects that are compared by reference (animals, staff) carry a  *)
(* ref field; two records are the same object exactly when they are equal. *)
(***************************************************************************)
EXTENDS Integers, Sequences, FiniteSets, TLC

VARIABLES
    zoo,    \* the Zoo instance: animals, staff, events, _event_subscriptions
    last,   \* the most recent call: its name, argument, log lines and result
    run,    \* the run_day coroutine: its position, locals and output
    file,   \* the files on disk, by path: what ZooStorage.save wrote there
    auto    \* a ZooStorage with its autosave tasks

vars == <<zoo, last, run, file, auto>>

\* The value of last after a call.
Call(op, arg, log, ret) == [op |-> op, arg |-> arg, log |-> log, ret |-> ret]

(***************************************************************************)
(* Bounds of the model.                                                    *)
(***************************************************************************)
NumAnimals == 2
NumStaff == 1
MaxEvents == 3
MaxTime == 2
MaxDur == 2
MaxTasks == 2
MaxVisitors == 3
DayLen == 2

Range(s) == {s[i] : i \in 1..Len(s)}

Min(S) == CHOOSE x \in S : \A y \in S : x <= y

(***************************************************************************)
(* Entities: zoo/core.py and zoo/staff.py.                                 *)
(***************************************************************************)
AnimalClasses == <<"Bird", "Mammal", "Reptile">>

AnimalNames == <<"Kesha", "Barsik", "Gena">>

StaffClasses == <<"ZooKeeper", "Veterinarian", "Guide">>

StaffNames == <<"Ivan", "Anna", "Maria">>

Bird(ref, name, age, wing_span, can_fly) ==
    [ref |-> ref, cls |-> "Bird", name |-> name, age |-> age,
     species |-> "Bird", wing_span |-> wing_span, can_fly |-> can_fly]

Mammal(ref, name, age, species, is_domestic, fur_type) ==
    [ref |-> ref, cls |-> "Mammal", name |-> name, age |-> age,
     species |-> species, is_domestic |-> is_domestic, fur_type |-> fur_type]

Reptile(ref, name, age, is_venomous) ==
    [ref |-> ref, cls |-> "Reptile", name |-> name, age |-> age,
     species |-> "Reptile", is_venomous |-> is_venomous]

\* Staff.__init__ sets hire_date to the day of construction.
Staff(ref, cls, name, staff_id, today) ==
    [ref |-> ref, cls |-> cls, name |-> name, staff_id |-> staff_id,
     hire_date |-> today]

\* The i-th animal object the callers hold: its class and name cycle through
\* the fixtures of the test suite.
AnimalObj(i) ==
    LET k == ((i - 1) % 3) + 1
    IN  CASE AnimalClasses[k] = "Bird" ->
                 Bird(i, AnimalNames[k], i, 3, TRUE)
          [] AnimalClasses[k] = "Mammal" ->
                 Mammal(i, AnimalNames[k], i, "Kot", TRUE, "short")
          [] OTHER -> Reptile(i, AnimalNames[k], i, FALSE)

StaffObj(i) ==
    LET k == ((i - 1) % 3) + 1
    IN  Staff(i, StaffClasses[k], StaffNames[k], i, 0)

AnimalObjs == {AnimalObj(i) : i \in 1..NumAnimals}

StaffObjs == {StaffObj(i) : i \in 1..NumStaff}

(***************************************************************************)
(* Sounds: zoo/core.py.                                                    *)
(***************************************************************************)
\* Mammal.SOUNDS
SOUNDS ==
    [cat |-> "Meow", dog |-> "Woof", lion |-> "Roar", tiger |-> "Growl",
     bear |-> "Grrr"]

\* str.lower() on the species strings in use; "Kot" is the Cyrillic word of
\* the test fixture, which has a lower-case form of its own.
lower(species) ==
    CASE species \in {"Cat", "CAT", "cat"} -> "cat"
      [] species \in {"Lion", "lion"} -> "lion"
      [] species \in {"Kot", "kot"} -> "kot"
      [] OTHER -> species

\* Mammal.make_sound answering for every class.
make_sound_by_species(animal) ==
    IF lower(animal.species) \in DOMAIN SOUNDS
    THEN SOUNDS[lower(animal.species)]
    ELSE "Grrr"

\* Bird.make_sound, Mammal.make_sound, Reptile.make_sound
make_sound(animal) ==
    CASE animal.cls = "Bird" -> "Chirp!"
      [] animal.cls = "Reptile" -> "Hiss..."
      [] OTHER -> IF lower(animal.species) \in DOMAIN SOUNDS
                  THEN SOUNDS[lower(animal.species)]
                  ELSE "Grrr"

\* animal_sound: the lines it prints, one per animal.
animal_sound(animals) ==
    [i \in 1..Len(animals) |->
        [name |-> animals[i].name, species |-> animals[i].species,
         says |-> make_sound(animals[i])]]

(***************************************************************************)
(* Events: zoo/events.py.                                                  *)
(***************************************************************************)
ZooEvent(event_type, name, description, start_time, duration, location, staff, animals) ==
    [cls |-> "ZooEvent", event_type |-> event_type, name |-> name,
     description |-> description, start_time |-> start_time,
     duration |-> duration, location |-> location, staff |-> staff,
     animals |-> animals]

FeedingEvent(name, start_time, location, food_type, animals, staff, duration, description) ==
    [cls |-> "FeedingEvent", event_type |-> "FEEDING", name |-> name,
     description |-> IF description = "" THEN "Feeding time" ELSE description,
     start_time |-> start_time, duration |-> duration,
     location |-> location, staff |-> staff, animals |-> animals,
     food_type |-> food_type]

MedicalCheckEvent(name, start_time, location, animals, staff, duration, description) ==
    [cls |-> "MedicalCheckEvent", event_type |-> "MEDICAL_CHECK",
     name |-> name,
     description |-> IF description = "" THEN "Routine medical check-up"
                     ELSE description,
     start_time |-> start_time, duration |-> duration,
     location |-> location, staff |-> staff, animals |-> animals]

TourEvent(name, start_time, location, staff, duration, description, max_visitors) ==
    [cls |-> "TourEvent", event_type |-> "TOUR", name |-> name,
     description |-> IF description = "" THEN "Guided tour of the zoo"
                     ELSE description,
     start_time |-> start_time, duration |-> duration,
     location |-> location, staff |-> staff, animals |-> <<>>,
     max_visitors |-> max_visitors, visitor_count |-> 0]

\* TourEvent.add_visitors without the test for space.
add_visitors_unchecked(event, count) ==
    [event |-> [event EXCEPT !.visitor_count = @ + count], ret |-> TRUE]

\* TourEvent.add_visitors: the event after the call and what it returns.
add_visitors(event, count) ==
    IF event.visitor_count + count <= event.max_visitors
    THEN [event |-> [event EXCEPT !.visitor_count = @ + count], ret |-> TRUE]
    ELSE [event |-> event, ret |-> FALSE]

end_time(e) == e.start_time + e.duration

\* datetime.date()
DateOf(t) == t \div DayLen

\* datetime.strftime('%H:%M')
HourMinute(t) == t % DayLen

\* The dates a caller asks about: every date an event can start on, and the
\* first date after them.
Dates == 0..(DateOf(MaxTime) + 1)

(***************************************************************************)
(* Log lines and report lines.                                             *)
(***************************************************************************)
\* A line of output: a logger call, a print or an await.  subject, other, t0
\* and t1 are what the line shows; ref is the object it is about (0: none).
LogLine(level, msg, subject, other, t0, t1, ref) ==
    [level |-> level, msg |-> msg, subject |-> subject, other |-> other,
     t0 |-> t0, t1 |-> t1, ref |-> ref]

Line(kind, num, text, names) ==
    [kind |-> kind, num |-> num, text |-> text, names |-> names]

Warnings(log) == SelectSeq(log, LAMBDA l : l.level = "warning")

(***************************************************************************)
(* The registry: zoo/zoo.py.  Each operation is a function of the Zoo z    *)
(* and returns the Zoo after the call with the lines it logged.            *)
(***************************************************************************)
NewZoo ==
    [animals |-> <<>>, staff |-> <<>>, events |-> <<>>,
     subs |-> [feeding |-> {}, medical_check |-> {}, enrichment |-> {}]]

\* Zoo.add_animal that subscribes the animal to feeding only.
add_animal_feeding_only(z, animal) ==
    IF animal \in Range(z.animals)
    THEN [zoo |-> z,
          log |-> <<LogLine("warning", "animal_exists", animal.name, "",
                            0, 0, animal.ref)>>]
    ELSE [zoo |-> [z EXCEPT !.animals = Append(@, animal),
                            !.subs.feeding = @ \cup {animal}],
          log |-> <<LogLine("info", "animal_added", animal.name,
                            animal.species, 0, 0, animal.ref)>>]

add_animal_unchecked(z, animal) ==
    [zoo |-> [z EXCEPT !.animals = Append(@, animal),
                       !.subs.feeding = @ \cup {animal},
                       !.subs.medical_check = @ \cup {animal}],
     log |-> <<LogLine("info", "animal_added", animal.name, animal.species,
                       0, 0, animal.ref)>>]

add_animal(z, animal) ==
    IF animal \in Range(z.animals)
    THEN [zoo |-> z,
          log |-> <<LogLine("warning", "animal_exists", animal.name, "",
                            0, 0, animal.ref)>>]
    ELSE [zoo |-> [z EXCEPT !.animals = Append(@, animal),
                            !.subs.feeding = @ \cup {animal},
                            !.subs.medical_check = @ \cup {animal}],
          log |-> <<LogLine("info", "animal_added", animal.name,
                            animal.species, 0, 0, animal.ref)>>]

add_staff(z, staff) ==
    IF staff \in Range(z.staff)
    THEN [zoo |-> z,
          log |-> <<LogLine("warning", "staff_exists", staff.name, "",
                            0, 0, staff.ref)>>]
    ELSE [zoo |-> [z EXCEPT !.staff = Append(@, staff)],
          log |-> <<LogLine("info", "staff_added", staff.name, staff.cls,
                            0, 0, staff.ref)>>]

events_overlap_closed(event1, event2) ==
    /\ event1.start_time <= end_time(event2)
    /\ end_time(event1) >= event2.start_time

events_overlap(event1, event2) ==
    /\ event1.start_time < end_time(event2)
    /\ end_time(event1) > event2.start_time

OverlapWarning(event, existing_event) ==
    LogLine("warning", "overlap", event.name, existing_event.name,
            existing_event.start_time, end_time(existing_event), 0)

RECURSIVE overlap_scan_all(_, _, _)
overlap_scan_all(evs, event, i) ==
    IF i > Len(evs) THEN <<>>
    ELSE (IF events_overlap(evs[i], event)
          THEN <<OverlapWarning(event, evs[i])>> ELSE <<>>)
         \o overlap_scan_all(evs, event, i + 1)

\* The for loop of schedule_event over self.events from position i on: the
\* first overlapping event is warned about and ends the loop.
RECURSIVE overlap_scan(_, _, _)
overlap_scan(evs, event, i) ==
    IF i > Len(evs) THEN <<>>
    ELSE IF events_overlap(evs[i], event)
         THEN <<OverlapWarning(event, evs[i])>>
         ELSE overlap_scan(evs, event, i + 1)

schedule_event_rejecting(z, event) ==
    IF overlap_scan(z.events, event, 1) # <<>>
    THEN [zoo |-> z, log |-> overlap_scan(z.events, event, 1)]
    ELSE [zoo |-> [z EXCEPT !.events = Append(@, event)],
          log |-> <<LogLine("info", "event_scheduled", event.name, "",
                            event.start_time, 0, 0)>>]

schedule_event(z, event) ==
    [zoo |-> [z EXCEPT !.events = Append(@, event)],
     log |-> overlap_scan(z.events, event, 1)
             \o <<LogLine("info", "event_scheduled", event.name, "",
                          event.start_time, 0, 0)>>]

\* list.sort(key=lambda e: e.start_time) is stable: an event goes behind
\* every event whose start_time is not greater.
RECURSIVE insert_by_start(_, _)
insert_by_start(sorted, e) ==
    IF sorted = <<>> THEN <<e>>
    ELSE IF e.start_time < Head(sorted).start_time
         THEN <<e>> \o sorted
         ELSE <<Head(sorted)>> \o insert_by_start(Tail(sorted), e)

RECURSIVE sort_by_start_time(_)
sort_by_start_time(evs) ==
    IF evs = <<>> THEN <<>>
    ELSE insert_by_start(sort_by_start_time(SubSeq(evs, 1, Len(evs) - 1)),
                         evs[Len(evs)])

get_events_on_date(z, target_date) ==
    SelectSeq(z.events, LAMBDA e : DateOf(e.start_time) = target_date)

(***************************************************************************)
(* daily_report.  The report is the sequence of its lines.                 *)
(***************************************************************************)
NamesOf(objs) == [i \in 1..Len(objs) |-> objs[i].name]

\* The lines of one event in the listing.
event_lines(event) ==
    <<Line("event", HourMinute(event.start_time), event.name, <<>>),
      Line("place", 0, event.location, <<>>),
      Line("participants", 0, "", NamesOf(event.staff))>>
    \o (IF event.animals # <<>>
        THEN <<Line("animals", 0, "", NamesOf(event.animals))>> ELSE <<>>)
    \o <<Line("blank", 0, "", <<>>)>>

RECURSIVE listing(_)
listing(daily_events) ==
    IF daily_events = <<>> THEN <<>>
    ELSE event_lines(Head(daily_events)) \o listing(Tail(daily_events))

\* animal_types[animal_type] = animal_types.get(animal_type, 0) + 1 on a dict
\* that keeps its keys in insertion order.
tally_add(animal_types, animal_type) ==
    IF \E i \in 1..Len(animal_types) : animal_types[i].text = animal_type
    THEN [i \in 1..Len(animal_types) |->
             IF animal_types[i].text = animal_type
             THEN [animal_types[i] EXCEPT !.num = @ + 1]
             ELSE animal_types[i]]
    ELSE Append(animal_types, Line("tally", 1, animal_type, <<>>))

RECURSIVE tally(_)
tally(animals) ==
    IF animals = <<>> THEN <<>>
    ELSE tally_add(tally(SubSeq(animals, 1, Len(animals) - 1)),
                   animals[Len(animals)].cls)

\* The report built from the day's events, once they are filtered and sorted.
report_lines(z, report_date, daily_events) ==
    <<Line("title", report_date, "", <<>>),
      Line("rule", 50, "=", <<>>),
      Line("animals_total", Len(z.animals), "", <<>>),
      Line("staff_total", Len(z.staff), "", <<>>),
      Line("events_scheduled", Len(daily_events), "", <<>>),
      Line("blank", 0, "", <<>>),
      Line("events_header", 0, "", <<>>),
      Line("rule", 30, "-", <<>>)>>
    \o (IF daily_events # <<>> THEN listing(daily_events)
        ELSE <<Line("no_events", 0, "", <<>>)>>)
    \o <<Line("blank", 0, "", <<>>),
         Line("summary_header", 0, "", <<>>),
         Line("rule", 30, "-", <<>>)>>
    \o tally(z.animals)

daily_report_unsorted(z, report_date) ==
    report_lines(z, report_date, get_events_on_date(z, report_date))

daily_report_unfiltered(z, report_date) ==
    report_lines(z, report_date, sort_by_start_time(z.events))

daily_report(z, report_date) ==
    report_lines(z, report_date,
                 sort_by_start_time(
                     SelectSeq(z.events,
                               LAMBDA e : DateOf(e.start_time) = report_date)))

(***************************************************************************)
(* notify_animals and run_day.                                             *)
(***************************************************************************)
\* Every order in which a for loop may go through the set S.
Orders(S) ==
    {o \in [1..Cardinality(S) -> S] : \A i, j \in DOMAIN o : o[i] = o[j] => i = j}

\* What one animal does when notified.
notify_one(animal, event_type, kwargs) ==
    IF event_type = "feeding" /\ "food" \in DOMAIN kwargs
    THEN <<LogLine("print", "eat", animal.name, kwargs.food, 0, 0,
                   animal.ref)>>
    ELSE IF event_type = "medical_check"
         THEN <<LogLine("info", "medical_visit", animal.name, "", 0, 0,
                        animal.ref)>>
         ELSE <<>>

RECURSIVE notify_in_order(_, _, _)
notify_in_order(order, event_type, kwargs) ==
    IF order = <<>> THEN <<>>
    ELSE notify_one(Head(order), event_type, kwargs)
         \o notify_in_order(Tail(order), event_type, kwargs)

\* The outputs notify_animals can produce: one for each order in which the
\* subscription set is iterated.
notify_animals(z, event_type, kwargs) ==
    IF event_type \notin DOMAIN z.subs
    THEN {<<LogLine("warning", "unknown_event_type", event_type, "", 0, 0,
                    0)>>}
    ELSE {notify_in_order(o, event_type, kwargs) : o \in Orders(z.subs[event_type])}

\* asyncio.sleep(0.5), in tenths of a second.
SleepTenths == 5

event_delay_by_duration(event) == event.duration

event_delay(event) == SleepTenths

dispatch_by_event_type(z, event) ==
    IF event.event_type = "FEEDING" /\ "food_type" \in DOMAIN event
    THEN notify_animals(z, "feeding", [food |-> event.food_type])
    ELSE IF event.event_type = "MEDICAL_CHECK"
         THEN notify_animals(z, "medical_check", <<>>)
         ELSE {<<>>}

\* The dispatch of run_day feeding the animals the event lists.
dispatch_listed_animals(z, event) ==
    IF event.cls = "FeedingEvent"
    THEN {notify_in_order(event.animals, "feeding",
                          [food |-> event.food_type])}
    ELSE IF event.cls = "MedicalCheckEvent"
         THEN notify_animals(z, "medical_check", <<>>)
         ELSE {<<>>}

\* The isinstance dispatch of run_day's loop body.
dispatch(z, event) ==
    IF event.cls = "FeedingEvent"
    THEN notify_animals(z, "feeding", [food |-> event.food_type])
    ELSE IF event.cls = "MedicalCheckEvent"
         THEN notify_animals(z, "medical_check", <<>>)
         ELSE {<<>>}

\* The loop body of run_day up to its await: the outputs it can produce.
event_begin(z, event) ==
    {<<LogLine("info", "event_start", event.name, "", 0, 0, 0)>>
     \o notified
     \o <<LogLine("await", "sleep", event.name, "", event_delay(event), 0, 0)>>
     : notified \in dispatch(z, event)}

event_end(event) ==
    <<LogLine("info", "event_end", event.name, "", 0, 0, 0)>>

day_daily_events_unstable(z, target_date) ==
    LET evs == get_events_on_date(z, target_date)
        rev == [i \in 1..Len(evs) |-> evs[Len(evs) + 1 - i]]
    IN  sort_by_start_time(rev)

\* daily_events of run_day: the day's events, sorted by start time.
day_daily_events(z, target_date) ==
    sort_by_start_time(get_events_on_date(z, target_date))

(***************************************************************************)
(* Persistence: zoo/storage.py with Zoo.save and Zoo.load.                 *)
(***************************************************************************)
SCHEMA_VERSION == "1.0"

\* The paths callers use, each named by its suffix: zoo.json and zoo.txt.
Paths == {"json", "txt"}

suffix(path) == path

\* The names of the EventType enumeration.
EventTypes ==
    {"FEEDING", "MEDICAL_CHECK", "TOUR", "SHOW", "CLEANING", "ENRICHMENT"}

\* datetime.isoformat(): a string with a date part and a time-of-day part.
isoformat(t) == [date |-> DateOf(t), time |-> HourMinute(t)]

\* datetime.fromisoformat() reading the date part only.
fromisoformat_date_only(s) == s.date * DayLen

\* datetime.fromisoformat()
fromisoformat(s) == s.date * DayLen + s.time

\* date.isoformat()
date_isoformat(d) == [date |-> d]

\* date.fromisoformat()
date_fromisoformat(s) == s.date

\* timedelta.total_seconds(): a float.
total_seconds(duration) == [float |-> duration]

\* timedelta(seconds=...)
timedelta(seconds) == seconds.float

\* The outcome of a call that returns value, and of one that raises.
Ok(value) == [raised |-> "", value |-> value]

Raise(exception) == [raised |-> exception]

\* dict.get(key, default)
get(data, key, default) == IF key \in DOMAIN data THEN data[key] ELSE default

serialize_animal(animal) ==
    LET data == [type |-> animal.cls, name |-> animal.name,
                 age |-> animal.age, species |-> animal.species]
    IN  CASE animal.cls = "Bird" ->
                 [wing_span |-> animal.wing_span,
                  can_fly |-> animal.can_fly] @@ data
          [] animal.cls = "Mammal" ->
                 [is_domestic |-> animal.is_domestic,
                  fur_type |-> animal.fur_type] @@ data
          [] animal.cls = "Reptile" ->
                 [is_venomous |-> animal.is_venomous] @@ data
          [] OTHER -> data

\* The object is new: ref is an identity no other object has.
deserialize_animal(data, ref) ==
    IF data.type \notin Range(AnimalClasses)
    THEN Raise("KeyError")
    ELSE CASE data.type = "Bird" ->
                  Ok(Bird(ref, data.name, data.age, data.wing_span,
                          data.can_fly))
           [] data.type = "Mammal" ->
                  Ok(Mammal(ref, data.name, data.age, data.species,
                            data.is_domestic, data.fur_type))
           [] OTHER -> Ok(Reptile(ref, data.name, data.age, data.is_venomous))

serialize_staff(staff) ==
    [type |-> staff.cls, name |-> staff.name, staff_id |-> staff.staff_id,
     hire_date |-> date_isoformat(staff.hire_date)]

deserialize_staff(data, ref) ==
    IF data.type \notin Range(StaffClasses)
    THEN Raise("KeyError")
    ELSE Ok([Staff(ref, data.type, data.name, data.staff_id, 0)
                 EXCEPT !.hire_date = date_fromisoformat(data.hire_date)])

serialize_event(event) ==
    LET data == [type |-> event.cls, name |-> event.name,
                 description |-> event.description,
                 start_time |-> isoformat(event.start_time),
                 duration_seconds |-> total_seconds(event.duration),
                 location |-> event.location,
                 staff_ids |-> [i \in 1..Len(event.staff) |->
                                   event.staff[i].staff_id],
                 animal_names |-> NamesOf(event.animals)]
    IN  CASE event.cls = "FeedingEvent" ->
                 [food_type |-> event.food_type] @@ data
          [] event.cls = "TourEvent" ->
                 [max_visitors |-> event.max_visitors,
                  visitor_count |-> event.visitor_count] @@ data
          [] OTHER -> data

deserialize_event(data, z) ==
    LET event_type == data.type
        start_time == fromisoformat(data.start_time)
        duration == timedelta(data.duration_seconds)
        staff == SelectSeq(z.staff,
                           LAMBDA s : s.staff_id \in Range(data.staff_ids))
        animals == SelectSeq(z.animals,
                             LAMBDA a : a.name \in Range(data.animal_names))
    IN  CASE event_type = "FeedingEvent" ->
                 IF "food_type" \in DOMAIN data
                 THEN Ok(FeedingEvent(data.name, start_time, data.location,
                                      data.food_type, animals, staff,
                                      duration, data.description))
                 ELSE Raise("KeyError")
          [] event_type = "MedicalCheckEvent" ->
                 Ok(MedicalCheckEvent(data.name, start_time, data.location,
                                      animals, staff, duration,
                                      data.description))
          [] event_type = "TourEvent" ->
                 Ok([TourEvent(data.name, start_time, data.location, staff,
                               duration, data.description,
                               get(data, "max_visitors", 20))
                         EXCEPT !.visitor_count =
                                    get(data, "visitor_count", 0)])
          [] OTHER ->
                 IF "event_type" \in DOMAIN data
                        /\ data["event_type"] \in EventTypes
                 THEN Ok(ZooEvent(data["event_type"], data.name,
                                  data.description, start_time, duration,
                                  data.location, staff, animals))
                 ELSE Raise("KeyError")

\* The dictionary ZooStorage.save writes; no reader uses its last_updated
\* stamp, which is left out.
storage_data(z) ==
    [schema_version |-> SCHEMA_VERSION,
     animals |-> [i \in 1..Len(z.animals) |-> serialize_animal(z.animals[i])],
     staff |-> [i \in 1..Len(z.staff) |-> serialize_staff(z.staff[i])],
     events |-> [i \in 1..Len(z.events) |-> serialize_event(z.events[i])]]

\* A path with no file, and a file: the format it was written in, its data
\* and, for reference, the registry it was saved from.
NoFile == [exists |-> FALSE]

FileOf(fmt, data, z) ==
    [exists |-> TRUE, fmt |-> fmt, data |-> data, saved_from |-> z]

NoFiles == [path \in Paths |-> NoFile]

\* ZooStorage.save writing json whatever the format asked for.
storage_save_any(files, z, path, fmt) ==
    [raised |-> "",
     files |-> [files EXCEPT ![path] = FileOf("json", storage_data(z), z)]]

\* ZooStorage.save, for the formats json and pickle and for unsupported
\* ones.
storage_save(files, z, path, fmt) ==
    LET data == storage_data(z)
    IN  IF fmt \in {"json", "pickle"}
        THEN [raised |-> "", files |-> [files EXCEPT ![path] = FileOf(fmt, data, z)]]
        ELSE [raised |-> "ValueError", files |-> files]

\* ZooStorage.load refusing a file of another schema version.
storage_load_strict(files, path) ==
    IF ~files[path].exists
    THEN Raise("FileNotFoundError") @@ [log |-> <<>>]
    ELSE IF get(files[path].data, "schema_version", "") # SCHEMA_VERSION
         THEN Raise("ValueError") @@ [log |-> <<>>]
         ELSE Ok(files[path].data) @@ [log |-> <<>>]

\* ZooStorage.load looking at the suffix before it looks for the file.
storage_load_suffix_first(files, path) ==
    IF suffix(path) \notin {"json", "pickle"}
    THEN Raise("ValueError") @@ [log |-> <<>>]
    ELSE IF ~files[path].exists
         THEN Raise("FileNotFoundError") @@ [log |-> <<>>]
         ELSE Ok(files[path].data) @@ [log |-> <<>>]

\* ZooStorage.load; reading a file with the parser of another format than
\* it was written in fails in the parser.
storage_load(files, path) ==
    IF ~files[path].exists
    THEN Raise("FileNotFoundError") @@ [log |-> <<>>]
    ELSE LET fmt == suffix(path)
         IN  IF fmt \in {"json", "pickle"}
             THEN IF files[path].fmt # fmt
                  THEN Raise("DecodeError") @@ [log |-> <<>>]
                  ELSE LET data == files[path].data
                       IN  Ok(data) @@
                           [log |->
                               IF get(data, "schema_version", "") # SCHEMA_VERSION
                               THEN <<LogLine("print", "schema_mismatch", "",
                                              "", 0, 0, 0)>>
                               ELSE <<>>]
             ELSE Raise("ValueError") @@ [log |-> <<>>]

\* Zoo.save
save(files, z, path, fmt) ==
    LET saved == storage_save(files, z, path, fmt)
    IN  saved @@
        [log |-> IF saved.raised = ""
                 THEN <<LogLine("info", "saved", path, "", 0, 0, 0)>>
                 ELSE <<>>]

\* The three loops of Zoo.load; the i-th object of a list gets identity -i.
RECURSIVE load_staff(_, _, _)
load_staff(z, records, i) ==
    IF i > Len(records)
    THEN [raised |-> "", zoo |-> z, log |-> <<>>]
    ELSE LET staff == deserialize_staff(records[i], -i)
         IN  IF staff.raised # ""
             THEN [raised |-> staff.raised, zoo |-> z, log |-> <<>>]
             ELSE LET added == add_staff(z, staff.value)
                      rest == load_staff(added.zoo, records, i + 1)
                  IN  [rest EXCEPT !.log = added.log \o @]

RECURSIVE load_animals(_, _, _)
load_animals(z, records, i) ==
    IF i > Len(records)
    THEN [raised |-> "", zoo |-> z, log |-> <<>>]
    ELSE LET animal == deserialize_animal(records[i], -i)
         IN  IF animal.raised # ""
             THEN [raised |-> animal.raised, zoo |-> z, log |-> <<>>]
             ELSE LET added == add_animal(z, animal.value)
                      rest == load_animals(added.zoo, records, i + 1)
                  IN  [rest EXCEPT !.log = added.log \o @]

RECURSIVE load_events(_, _, _)
load_events(z, records, i) ==
    IF i > Len(records)
    THEN [raised |-> "", zoo |-> z, log |-> <<>>]
    ELSE LET event == deserialize_event(records[i], z)
         IN  IF event.raised # ""
             THEN LET rest == load_events(z, records, i + 1)
                  IN  [rest EXCEPT
                           !.log = <<LogLine("error", "event_load_error",
                                             records[i].name, event.raised,
                                             0, 0, 0)>> \o @]
             ELSE LET added == schedule_event(z, event.value)
                      rest == load_events(added.zoo, records, i + 1)
                  IN  [rest EXCEPT !.log = added.log \o @]

\* Zoo.load with the events restored before the animals.
load_events_first(files, path) ==
    LET data == storage_load(files, path)
    IN  IF data.raised # ""
        THEN [raised |-> data.raised, log |-> data.log]
        ELSE LET staff == load_staff(NewZoo, get(data.value, "staff", <<>>), 1)
                 events == load_events(staff.zoo, get(data.value, "events", <<>>), 1)
                 animals == load_animals(events.zoo, get(data.value, "animals", <<>>), 1)
             IN  IF staff.raised # "" \/ animals.raised # ""
                 THEN [raised |-> "KeyError", log |-> data.log]
                 ELSE [raised |-> "", zoo |-> animals.zoo,
                       log |-> data.log \o staff.log \o events.log \o
                               animals.log]

\* Zoo.load: the registry it returns, or the exception it raises.
load(files, path) ==
    LET data == storage_load(files, path)
    IN  IF data.raised # ""
        THEN [raised |-> data.raised, log |-> data.log]
        ELSE LET staff == load_staff(NewZoo, get(data.value, "staff", <<>>), 1)
             IN  IF staff.raised # ""
                 THEN [raised |-> staff.raised, log |-> data.log \o staff.log]
                 ELSE LET animals == load_animals(staff.zoo, get(data.value, "animals", <<>>), 1)
                      IN  IF animals.raised # ""
                          THEN [raised |-> animals.raised,
                                log |-> data.log \o staff.log \o animals.log]
                          ELSE LET events == load_events(animals.zoo, get(data.value, "events", <<>>), 1)
                               IN  [raised |-> "", zoo |-> events.zoo,
                                    log |-> data.log \o staff.log \o
                                            animals.log \o events.log \o
                                            <<LogLine("info", "loaded", path,
                                                      "", 0, 0, 0)>>]

(***************************************************************************)
(* Autosave: ZooStorage.start_autosave, its autosave_loop task and         *)
(* ZooStorage.stop_autosave.                                               *)
(***************************************************************************)
\* The default of autosave_interval, in seconds.
DefaultInterval == 900

\* ZooStorage.__init__; tasks lists every task the storage ever created, and
\* autosave_task is the position of the current one in it (0: None).
NewStorage(autosave_interval) ==
    [autosave_interval |-> autosave_interval, autosave_task |-> 0,
     shutdown |-> FALSE, tasks |-> <<>>]

\* asyncio.create_task(autosave_loop()): the task has not run yet.  stopped
\* records that a stop_autosave found it as the current task.
NewTask(path, fmt) ==
    [pc |-> "new", path |-> path, fmt |-> fmt, stopped |-> FALSE]

\* Whether a task can still run.
Pending(task) == task.pc \in {"new", "sleep"}

\* Task.cancel(): a pending task gets CancelledError at its await, or before
\* its first step, and runs none of its code again.
cancel(task) ==
    IF Pending(task) THEN [task EXCEPT !.pc = "cancelled"] ELSE task

\* ZooStorage.start_autosave without the test of the interval.
start_autosave_unchecked(storage, path, fmt) ==
    [storage EXCEPT !.shutdown = FALSE,
                    !.tasks = Append(@, NewTask(path, fmt)),
                    !.autosave_task = Len(storage.tasks) + 1]

start_autosave(storage, path, fmt) ==
    IF storage.autosave_interval <= 0
    THEN storage
    ELSE [storage EXCEPT !.shutdown = FALSE,
                         !.tasks = Append(@, NewTask(path, fmt)),
                         !.autosave_task = Len(storage.tasks) + 1]

\* ZooStorage.stop_autosave that sets the flag and forgets the task without
\* cancelling it.
stop_autosave_no_cancel(storage) ==
    IF storage.autosave_task # 0
    THEN [storage EXCEPT !.shutdown = TRUE,
                         !.tasks[storage.autosave_task].stopped = TRUE,
                         !.autosave_task = 0]
    ELSE storage

stop_autosave(storage) ==
    IF storage.autosave_task # 0
    THEN [storage EXCEPT !.shutdown = TRUE,
                         !.tasks[storage.autosave_task] =
                             [cancel(@) EXCEPT !.stopped = TRUE],
                         !.autosave_task = 0]
    ELSE storage

\* autosave_loop whose save was suspended after reading the animals: it
\* writes the animals the path's file was last saved from with the staff and
\* the events of the present registry.
autosave_wake_torn(storage, files, z, t) ==
    LET task == storage.tasks[t]
        early == IF files[task.path].exists
                 THEN files[task.path].saved_from.animals
                 ELSE <<>>
        saved == storage_save(files, [z EXCEPT !.animals = early], task.path,
                              task.fmt)
    IN  [storage |-> [storage EXCEPT
                          !.tasks[t].pc =
                              IF storage.shutdown THEN "done" ELSE "sleep"],
         files |-> IF storage.shutdown THEN files ELSE saved.files,
         saved |-> ~storage.shutdown /\ saved.raised = "",
         log |-> <<>>]

\* autosave_loop from the end of its sleep to the next sleep or to its end:
\* the save, if the flag allows it, and the test of the loop.
autosave_wake(storage, files, z, t) ==
    LET task == storage.tasks[t]
        saved == storage_save(files, z, task.path, task.fmt)
    IN  [storage |-> [storage EXCEPT
                          !.tasks[t].pc =
                              IF storage.shutdown THEN "done" ELSE "sleep"],
         files |-> IF storage.shutdown THEN files ELSE saved.files,
         saved |-> ~storage.shutdown /\ saved.raised = "",
         log |-> IF storage.shutdown
                 THEN <<>>
                 ELSE IF saved.raised = ""
                      THEN <<LogLine("print", "autosaved", task.path, "",
                                     0, 0, 0)>>
                      ELSE <<LogLine("print", "autosave_error", task.path,
                                     saved.raised, 0, 0, 0)>>]

IdleRun ==
    [pc |-> "idle", target_date |-> 0, daily_events |-> <<>>, i |-> 0,
     trace |-> <<>>, processed |-> <<>>, snapshot |-> <<>>]

(***************************************************************************)
(* The state after construction and the operations.                        *)
(***************************************************************************)
Init ==
    /\ zoo = NewZoo
    /\ last = Call("init", 0, <<>>, 0)
    /\ run = IdleRun
    /\ file = NoFiles
    /\ auto = NewStorage(DefaultInterval)

\* add_animal that waits while an autosave task is pending.
AddAnimalUnlessAutosave(animal) ==
    /\ \A t \in 1..Len(auto.tasks) : ~Pending(auto.tasks[t])
    /\ zoo' = add_animal(zoo, animal).zoo
    /\ last' = Call("add_animal", animal, add_animal(zoo, animal).log, 0)
    /\ UNCHANGED <<run, file, auto>>

AddAnimal(animal) ==
    /\ zoo' = add_animal(zoo, animal).zoo
    /\ last' = Call("add_animal", animal, add_animal(zoo, animal).log, 0)
    /\ UNCHANGED <<run, file, auto>>

AddStaff(staff) ==
    /\ zoo' = add_staff(zoo, staff).zoo
    /\ last' = Call("add_staff", staff, add_staff(zoo, staff).log, 0)
    /\ UNCHANGED <<run, file, auto>>

ScheduleEvent(event) ==
    /\ Len(zoo.events) < MaxEvents
    /\ zoo' = schedule_event(zoo, event).zoo
    /\ last' = Call("schedule_event", event, schedule_event(zoo, event).log, 0)
    /\ UNCHANGED <<run, file, auto>>

DailyReport(report_date) ==
    /\ last' = Call("daily_report", report_date, <<>>,
                    daily_report(zoo, report_date))
    /\ UNCHANGED <<zoo, run, file, auto>>

\* run_day sorting the registry's own event list before it reads the day.
RunDaySortingInPlace(target_date) ==
    /\ run.pc # "sleep"
    /\ zoo' = [zoo EXCEPT !.events = sort_by_start_time(@)]
    /\ run' = [pc |-> "done", target_date |-> target_date,
               daily_events |-> <<>>, i |-> 0, trace |-> <<>>,
               processed |-> <<>>, snapshot |-> zoo.events]
    /\ last' = Call("run_day", target_date, <<>>, 0)
    /\ UNCHANGED <<file, auto>>

\* run_day from its call to its first await, or to its return when the day
\* has no events.
RunDay(target_date) ==
    /\ run.pc # "sleep"
    /\ LET daily_events == day_daily_events(zoo, target_date)
           started == <<LogLine("info", "day_start", "", "", target_date, 0, 0)>>
       IN  IF daily_events = <<>>
           THEN run' = [pc |-> "done", target_date |-> target_date,
                        daily_events |-> daily_events, i |-> 0,
                        trace |-> started \o
                            <<LogLine("info", "day_end", "", "", target_date,
                                      0, 0)>>,
                        processed |-> <<>>, snapshot |-> zoo.events]
           ELSE \E out \in event_begin(zoo, daily_events[1]) :
                    run' = [pc |-> "sleep", target_date |-> target_date,
                            daily_events |-> daily_events, i |-> 1,
                            trace |-> started \o out,
                            processed |-> <<daily_events[1]>>,
                            snapshot |-> zoo.events]
    /\ last' = Call("run_day", target_date, <<>>, 0)
    /\ UNCHANGED <<zoo, file, auto>>

\* run_day resuming with the day's events read again from the registry.
RunDayResumeRereading ==
    /\ run.pc = "sleep"
    /\ LET ended == run.trace \o event_end(run.daily_events[run.i])
           daily_events == day_daily_events(zoo, run.target_date)
       IN  IF run.i >= Len(daily_events)
           THEN run' = [run EXCEPT
                            !.pc = "done",
                            !.daily_events = daily_events,
                            !.trace = ended \o
                                <<LogLine("info", "day_end", "", "",
                                          run.target_date, 0, 0)>>]
           ELSE \E out \in event_begin(zoo, daily_events[run.i + 1]) :
                    run' = [run EXCEPT
                                !.i = @ + 1,
                                !.daily_events = daily_events,
                                !.trace = ended \o out,
                                !.processed =
                                    Append(@, daily_events[run.i + 1])]
    /\ last' = Call("run_day", run.target_date, <<>>, 0)
    /\ UNCHANGED <<zoo, file, auto>>

\* run_day from the end of an await to the next await, or to its return.
RunDayResume ==
    /\ run.pc = "sleep"
    /\ LET ended == run.trace \o event_end(run.daily_events[run.i])
       IN  IF run.i = Len(run.daily_events)
           THEN run' = [run EXCEPT
                            !.pc = "done",
                            !.trace = ended \o
                                <<LogLine("info", "day_end", "", "",
                                          run.target_date, 0, 0)>>]
           ELSE \E out \in event_begin(zoo, run.daily_events[run.i + 1]) :
                    run' = [run EXCEPT
                                !.i = @ + 1,
                                !.trace = ended \o out,
                                !.processed =
                                    Append(@, run.daily_events[run.i + 1])]
    /\ last' = Call("run_day", run.target_date, <<>>, 0)
    /\ UNCHANGED <<zoo, file, auto>>

\* Zoo.save(path, fmt)
Save(path, fmt) ==
    /\ file' = save(file, zoo, path, fmt).files
    /\ last' = Call("save", <<path, fmt>>, save(file, zoo, path, fmt).log,
                    save(file, zoo, path, fmt).raised)
    /\ UNCHANGED <<zoo, run, auto>>

\* Zoo.load(path): a class method, the registry it builds is its result.
Load(path) ==
    /\ last' = Call("load", path, load(file, path).log, load(file, path))
    /\ UNCHANGED <<zoo, run, file, auto>>

\* A type tag that no class map of the storage knows.
UnknownTag == "Unknown"

\* The file at path comes from elsewhere: record i of one of its lists
\* carries a type tag this program does not know, all else is as save
\* writes it.  The file holds one such record.
ForeignRecord(path, key, i) ==
    /\ file[path].exists
    /\ \A k \in {"animals", "staff", "events"} :
           \A j \in 1..Len(file[path].data[k]) :
               file[path].data[k][j].type # UnknownTag
    /\ i \in 1..Len(file[path].data[key])
    /\ file' = [file EXCEPT ![path].data[key][i].type = UnknownTag]
    /\ last' = Call("foreign_record", <<path, key, i>>, <<>>, 0)
    /\ UNCHANGED <<zoo, run, auto>>

\* The schema versions of files from elsewhere; "" stands for a file with no
\* schema_version key.
OtherVersions == {"0.9", ""}

\* A dictionary without its schema_version key.
Unversioned(data) == [k \in DOMAIN data \ {"schema_version"} |-> data[k]]

\* The file at path comes from elsewhere: it has another schema version, or
\* none, all else is as save writes it.
ForeignVersion(path, version) ==
    /\ file[path].exists
    /\ file' = [file EXCEPT
                    ![path].data =
                        IF version = ""
                        THEN Unversioned(@)
                        ELSE [schema_version |-> version] @@ Unversioned(@)]
    /\ last' = Call("foreign_version", <<path, version>>, <<>>, 0)
    /\ UNCHANGED <<zoo, run, auto>>

\* animal_sound(zoo.animals)
AnimalSound ==
    /\ last' = Call("animal_sound", zoo.animals, <<>>,
                    animal_sound(zoo.animals))
    /\ UNCHANGED <<zoo, run, file, auto>>

\* await storage.start_autosave(zoo, path, fmt)
StartAutosave(path, fmt) ==
    /\ Len(auto.tasks) < MaxTasks
    /\ auto' = start_autosave(auto, path, fmt)
    /\ last' = Call("start_autosave", <<path, fmt>>, <<>>, 0)
    /\ UNCHANGED <<zoo, run, file>>

\* storage.stop_autosave(); the register names the task it found (0: none).
StopAutosave ==
    /\ auto' = stop_autosave(auto)
    /\ last' = Call("stop_autosave", auto.autosave_task, <<>>, 0)
    /\ UNCHANGED <<zoo, run, file>>

\* The first step of task t: the test of the loop, up to the sleep.
AutosaveBegin(t) ==
    /\ t \in 1..Len(auto.tasks)
    /\ auto.tasks[t].pc = "new"
    /\ auto' = [auto EXCEPT
                    !.tasks[t].pc = IF auto.shutdown THEN "done" ELSE "sleep"]
    /\ last' = Call("autosave_begin", t, <<>>, 0)
    /\ UNCHANGED <<zoo, run, file>>

\* Task t wakes from its sleep.  The result notes whether it saved and what
\* the path held before.
AutosaveWake(t) ==
    /\ t \in 1..Len(auto.tasks)
    /\ auto.tasks[t].pc = "sleep"
    /\ auto' = autosave_wake(auto, file, zoo, t).storage
    /\ file' = autosave_wake(auto, file, zoo, t).files
    /\ last' = Call("autosave_wake", t, autosave_wake(auto, file, zoo, t).log,
                    [saved |-> autosave_wake(auto, file, zoo, t).saved,
                     before |-> file[auto.tasks[t].path]])
    /\ UNCHANGED <<zoo, run>>

\* zoo.events[i].add_visitors(count) on a tour of the registry; the register
\* keeps the position and the count.  Counts below -MaxVisitors are not
\* followed.
AddVisitors(i, count) ==
    /\ i \in 1..Len(zoo.events)
    /\ zoo.events[i].cls = "TourEvent"
    /\ zoo.events[i].visitor_count + count >= -MaxVisitors
    /\ zoo' = [zoo EXCEPT !.events[i] = add_visitors(@, count).event]
    /\ last' = Call("add_visitors", <<i, count>>, <<>>,
                    add_visitors(zoo.events[i], count).ret)
    /\ UNCHANGED <<run, file, auto>>

\* zoo.notify_animals(event_type, **kwargs), called directly.
NotifyAnimalsCall(event_type, kwargs) ==
    /\ \E out \in notify_animals(zoo, event_type, kwargs) :
           last' = Call("notify_animals", event_type, out, 0)
    /\ UNCHANGED <<zoo, run, file, auto>>

(***************************************************************************)
(* The inputs of the specifications.                                       *)
(***************************************************************************)
\* Events of every start time and duration.
SchedEvents ==
    {ZooEvent("SHOW", "Show", "A show", s, d, "Arena", <<>>, <<>>) :
        s \in 0..MaxTime, d \in 0..MaxDur}

\* Events of every start time, one tick or MaxDur ticks long.
RunEvents ==
    {ZooEvent("SHOW", "Show", "A show", s, d, "Arena", <<>>, <<>>) :
        s \in 0..MaxTime, d \in {1, MaxDur}}

\* Events of every start time, one tick long.
TourEvents ==
    {TourEvent("Tour", s, "Gate", <<>>, 1, "", 20) : s \in 0..MaxTime}

\* The animals that arrive while a day with notifications runs.
NotifyAnimals == {AnimalObj(1), AnimalObj(NumAnimals)}

\* One event of each class on the first tick, and a plain ZooEvent that
\* carries the medical-check type tag.
NotifyEvents ==
    {FeedingEvent("Feeding", 0, "Enclosure", "hay", <<AnimalObj(1)>>, <<>>, 1, ""),
     MedicalCheckEvent("Checkup", 0, "Clinic", <<>>, <<>>, 1, ""),
     TourEvent("Tour", 0, "Gate", <<>>, 1, "", 20),
     ZooEvent("MEDICAL_CHECK", "Vet talk", "A talk", 0, 1, "Arena", <<>>, <<>>)}

\* The events of a registry that is saved: a plain ZooEvent, a feeding and a
\* tour, with staff and animals of the callers.
StoreEvents ==
    {ZooEvent("SHOW", "Show", "A show", 0, 1, "Arena", <<StaffObj(1)>>, <<AnimalObj(1)>>),
     FeedingEvent("Feeding", 1, "Enclosure", "hay", <<AnimalObj(1)>>, <<StaffObj(1)>>, 1, ""),
     TourEvent("Tour", MaxTime, "Gate", <<StaffObj(1)>>, 1, "", 20)}

\* The formats callers save in: a supported and an unsupported one.
Formats == {"json", "xml"}

\* The paths callers save to.
JsonPaths == {path \in Paths : suffix(path) = "json"}

\* Animals of every class with their fields varied: birds and reptiles of
\* two names, two ages and both flags, and mammals of several species
\* spellings.
SoundBirds ==
    {Bird(10 + 4 * n + 2 * a + c, AnimalNames[n + 1],
          IF a = 0 THEN 1 ELSE NumAnimals, 3, c = 1) :
        n \in 0..1, a \in 0..1, c \in 0..1}

SoundReptiles ==
    {Reptile(20 + 4 * n + 2 * a + c, AnimalNames[n + 1],
             IF a = 0 THEN 1 ELSE NumAnimals, c = 1) :
        n \in 0..1, a \in 0..1, c \in 0..1}

SpeciesSpellings == <<"Cat", "cat", "CAT", "Kot", "Lion", "Wolf">>

SoundMammals ==
    {Mammal(30 + k, "Barsik", 3, SpeciesSpellings[k], TRUE, "short") :
        k \in 1..Len(SpeciesSpellings)}

SoundAnimals == SoundBirds \cup SoundReptiles \cup SoundMammals

\* The intervals a storage is built with: none, a negative one and the
\* default.
Intervals == {0, -1, DefaultInterval}

\* The events scheduled while autosave runs.
AutosaveEvents == {TourEvent("Tour", 0, "Gate", <<>>, 1, "", 20)}

\* Tours of every capacity, a negative one among them.
VisitorTours ==
    {TourEvent("Tour", 0, "Gate", <<>>, 1, "", max_visitors) :
        max_visitors \in -1..MaxVisitors}

\* The numbers of visitors a caller asks for.
VisitorCounts == -1..(MaxVisitors + 1)

\* Two feedings of one day: one lists the first animal only, one lists no
\* animal.
FeedingEvents ==
    {FeedingEvent("Morning", 0, "Enclosure", "hay", <<AnimalObj(1)>>, <<>>, 1, ""),
     FeedingEvent("Evening", 1, "Enclosure", "fish", <<>>, <<>>, 1, "")}

\* One event of each class the storage restores with its class, with the
\* animals and staff they reference.
TypedStoreEvents ==
    {FeedingEvent("Feeding", 1, "Enclosure", "hay", <<AnimalObj(1)>>, <<StaffObj(1)>>, 1, ""),
     MedicalCheckEvent("Checkup", 0, "Clinic", <<AnimalObj(NumAnimals)>>, <<StaffObj(1)>>, MaxDur, ""),
     TourEvent("Tour", MaxTime, "Gate", <<StaffObj(1)>>, 1, "", 20)}

\* The animals, the events and the notifications of a registry whose lists
\* are watched: the events are planned latest first or earliest first.
ListAnimals == {AnimalObj(1)}

ListEvents ==
    {FeedingEvent("Feeding", 1, "Enclosure", "hay", <<AnimalObj(1)>>, <<>>, 1, ""),
     MedicalCheckEvent("Checkup", 0, "Clinic", <<>>, <<>>, 1, "")}

NotifyCalls ==
    {<<"feeding", [food |-> "hay"]>>, <<"medical_check", <<>>>>,
     <<"enrichment", <<>>>>, <<"show", <<>>>>}

(***************************************************************************)
(* The registry with its report: adding, scheduling, reporting.            *)
(***************************************************************************)
NextRegistry ==
    \/ \E animal \in AnimalObjs : AddAnimal(animal)
    \/ \E staff \in StaffObjs : AddStaff(staff)
    \/ \E event \in TourEvents : ScheduleEvent(event)
    \/ \E report_date \in Dates : DailyReport(report_date)

SpecRegistry == Init /\ [][NextRegistry]_vars

(***************************************************************************)
(* The schedule: scheduling events of any start and duration, reporting.   *)
(***************************************************************************)
NextSchedule ==
    \/ \E event \in SchedEvents : ScheduleEvent(event)
    \/ \E report_date \in Dates : DailyReport(report_date)

SpecSchedule == Init /\ [][NextSchedule]_vars

(***************************************************************************)
(* A day's run over a schedule that other tasks extend while it sleeps.    *)
(***************************************************************************)
NextRun ==
    \/ \E event \in RunEvents : ScheduleEvent(event)
    \/ \E target_date \in Dates : RunDay(target_date)
    \/ RunDayResume

SpecRun == Init /\ [][NextRun]_vars

(***************************************************************************)
(* A day's run over events of every class while animals are added; the     *)
(* caller plans each of the day's events once.                             *)
(***************************************************************************)
NextNotify ==
    \/ \E animal \in NotifyAnimals : AddAnimal(animal)
    \/ \E event \in NotifyEvents \ Range(zoo.events) : ScheduleEvent(event)
    \/ RunDay(DateOf(0))
    \/ RunDayResume

SpecNotify == Init /\ [][NextNotify]_vars

(***************************************************************************)
(* Building a registry, saving it and loading files; the caller plans each *)
(* event once.                                                             *)
(***************************************************************************)
NextStore ==
    \/ \E animal \in AnimalObjs : AddAnimal(animal)
    \/ \E staff \in StaffObjs : AddStaff(staff)
    \/ \E event \in StoreEvents \ Range(zoo.events) : ScheduleEvent(event)
    \/ \E path \in JsonPaths, fmt \in Formats : Save(path, fmt)
    \/ \E path \in Paths : Load(path)

SpecStore == Init /\ [][NextStore]_vars

(***************************************************************************)
(* Loading files that hold a record of an unknown type; the caller plans   *)
(* each event once.                                                        *)
(***************************************************************************)
NextTags ==
    \/ \E animal \in NotifyAnimals : AddAnimal(animal)
    \/ \E staff \in StaffObjs : AddStaff(staff)
    \/ \E event \in StoreEvents \ Range(zoo.events) : ScheduleEvent(event)
    \/ \E path \in JsonPaths : Save(path, "json")
    \/ \E path \in JsonPaths, key \in {"animals", "staff", "events"} :
           \E i \in 1..MaxEvents : ForeignRecord(path, key, i)
    \/ \E path \in JsonPaths : Load(path)

SpecTags == Init /\ [][NextTags]_vars

(***************************************************************************)
(* Loading files of another schema version; the caller plans each event    *)
(* once.                                                                   *)
(***************************************************************************)
NextVersion ==
    \/ \E animal \in NotifyAnimals : AddAnimal(animal)
    \/ \E staff \in StaffObjs : AddStaff(staff)
    \/ \E event \in StoreEvents \ Range(zoo.events) : ScheduleEvent(event)
    \/ \E path \in JsonPaths : Save(path, "json")
    \/ \E path \in JsonPaths, version \in OtherVersions :
           ForeignVersion(path, version)
    \/ \E path \in JsonPaths : Load(path)

SpecVersion == Init /\ [][NextVersion]_vars

(***************************************************************************)
(* Saving in supported and unsupported formats to paths of supported and   *)
(* unsupported suffixes, and loading them.                                 *)
(***************************************************************************)
NextFormats ==
    \/ \E animal \in AnimalObjs : AddAnimal(animal)
    \/ \E path \in Paths, fmt \in Formats : Save(path, fmt)
    \/ \E path \in Paths : Load(path)

SpecFormats == Init /\ [][NextFormats]_vars

(***************************************************************************)
(* The sounds of the animals of a registry of up to NumAnimals animals.    *)
(***************************************************************************)
NextSound ==
    \/ \E animal \in SoundAnimals :
           Len(zoo.animals) < NumAnimals /\ AddAnimal(animal)
    \/ AnimalSound

SpecSound == Init /\ [][NextSound]_vars

(***************************************************************************)
(* A storage of any interval whose autosave is started and stopped while   *)
(* the registry changes; the caller plans each event once.                 *)
(***************************************************************************)
InitAutosave ==
    /\ zoo = NewZoo
    /\ last = Call("init", 0, <<>>, 0)
    /\ run = IdleRun
    /\ file = NoFiles
    /\ \E autosave_interval \in Intervals :
           auto = NewStorage(autosave_interval)

NextAutosave ==
    \/ \E animal \in NotifyAnimals : AddAnimal(animal)
    \/ \E staff \in StaffObjs : AddStaff(staff)
    \/ \E event \in AutosaveEvents \ Range(zoo.events) : ScheduleEvent(event)
    \/ \E path \in JsonPaths : StartAutosave(path, "json")
    \/ StopAutosave
    \/ \E t \in 1..MaxTasks : AutosaveBegin(t)
    \/ \E t \in 1..MaxTasks : AutosaveWake(t)

SpecAutosave == InitAutosave /\ [][NextAutosave]_vars

(***************************************************************************)
(* One tour is planned and visitors are added to it.                       *)
(***************************************************************************)
NextTour ==
    \/ \E event \in VisitorTours : zoo.events = <<>> /\ ScheduleEvent(event)
    \/ \E count \in VisitorCounts : AddVisitors(1, count)

SpecTour == Init /\ [][NextTour]_vars

(***************************************************************************)
(* A day's run over feedings while animals are added; the caller plans     *)
(* each feeding once.                                                      *)
(***************************************************************************)
NextFeeding ==
    \/ \E animal \in NotifyAnimals : AddAnimal(animal)
    \/ \E event \in FeedingEvents \ Range(zoo.events) : ScheduleEvent(event)
    \/ RunDay(DateOf(0))
    \/ RunDayResume

SpecFeeding == Init /\ [][NextFeeding]_vars

(***************************************************************************)
(* A registry with events of the three restored classes, saved and loaded; *)
(* the caller plans each event once.                                       *)
(***************************************************************************)
NextRefs ==
    \/ \E animal \in NotifyAnimals : AddAnimal(animal)
    \/ \E staff \in StaffObjs : AddStaff(staff)
    \/ \E event \in TypedStoreEvents \ Range(zoo.events) : ScheduleEvent(event)
    \/ \E path \in JsonPaths : Save(path, "json")
    \/ \E path \in JsonPaths : Load(path)

SpecRefs == Init /\ [][NextRefs]_vars

(***************************************************************************)
(* Every operation of the registry that callers use on one Zoo; the caller *)
(* plans each event once.                                                  *)
(***************************************************************************)
NextLists ==
    \/ \E animal \in ListAnimals : AddAnimal(animal)
    \/ \E staff \in StaffObjs : AddStaff(staff)
    \/ \E event \in ListEvents \ Range(zoo.events) : ScheduleEvent(event)
    \/ DailyReport(DateOf(0))
    \/ \E call \in NotifyCalls : NotifyAnimalsCall(call[1], call[2])
    \/ \E path \in JsonPaths : Save(path, "json")
    \/ RunDay(DateOf(0))
    \/ RunDayResume

SpecLists == Init /\ [][NextLists]_vars

(***************************************************************************)
(* _events_overlap applied to two events of any start time and duration.   *)
(***************************************************************************)
InitOverlap ==
    /\ zoo = NewZoo
    /\ \E event1, event2 \in SchedEvents :
           last = Call("input", <<event1, event2>>, <<>>, FALSE)
    /\ run = IdleRun
    /\ file = NoFiles
    /\ auto = NewStorage(DefaultInterval)

EventsOverlapCall ==
    /\ last.op = "input"
    /\ last' = Call("events_overlap", last.arg, <<>>,
                    events_overlap(last.arg[1], last.arg[2]))
    /\ UNCHANGED <<zoo, run, file, auto>>

SpecOverlap == InitOverlap /\ [][EventsOverlapCall]_vars

(***************************************************************************)
(* Properties.                                                             *)
(***************************************************************************)
NoDuplicates(s) == \A i, j \in 1..Len(s) : s[i] = s[j] => i = j

\* The numbers shown by the report's lines of one kind.
LineNums(report, kind) == {l.num : l \in {x \in Range(report) : x.kind = kind}}

EventLines(report) == SelectSeq(report, LAMBDA l : l.kind = "event")

\* The positions of the events of evs that start on date d.
StartingOn(evs, d) == {i \in 1..Len(evs) : DateOf(evs[i].start_time) = d}

\* Whether the half-open intervals [start_time, end_time) of two events have
\* a point in common.
HalfOpenIntersect(event1, event2) ==
    \E t \in 0..(MaxTime + MaxDur) :
        /\ event1.start_time <= t /\ t < end_time(event1)
        /\ event2.start_time <= t /\ t < end_time(event2)

\* Whether t lies strictly inside the interval of event.
StrictlyInside(t, event) == event.start_time < t /\ t < end_time(event)

\* C1 (step): add_animal and add_staff with an object that is not in the
\* list append it at the end; with an object that is in the list they leave
\* the registry as it is and log exactly one line, a warning.
C1_AddStep ==
    /\ last'.op = "add_animal" =>
           IF last'.arg \in Range(zoo.animals)
           THEN /\ zoo' = zoo
                /\ Len(last'.log) = 1
                /\ last'.log[1].level = "warning"
           ELSE /\ zoo'.animals = Append(zoo.animals, last'.arg)
                /\ Warnings(last'.log) = <<>>
    /\ last'.op = "add_staff" =>
           IF last'.arg \in Range(zoo.staff)
           THEN /\ zoo' = zoo
                /\ Len(last'.log) = 1
                /\ last'.log[1].level = "warning"
           ELSE /\ zoo'.staff = Append(zoo.staff, last'.arg)
                /\ Warnings(last'.log) = <<>>

\* C1: after any sequence of add_animal and add_staff calls, zoo.animals and
\* zoo.staff hold every object at most once; a call with a new object appends
\* it, a call with an object already present changes nothing and only logs a
\* warning.
C1_AddOnce ==
    /\ [](NoDuplicates(zoo.animals) /\ NoDuplicates(zoo.staff))
    /\ [][C1_AddStep]_vars

\* C1 witness: every animal is in the registry, and the last call was an
\* add_animal of one of them, answered with a warning.
C1_Witness ==
    /\ last.op = "add_animal"
    /\ Warnings(last.log) # <<>>
    /\ Len(zoo.animals) = NumAnimals
    /\ Len(zoo.staff) = NumStaff

\* C2: schedule_event(e) appends e as the last element of zoo.events,
\* whether or not e overlaps a scheduled event: it rejects nothing.
C2_AlwaysAppends ==
    [][last'.op = "schedule_event" =>
           zoo'.events = Append(zoo.events, last'.arg)]_vars

\* C2 witness: two overlapping events were scheduled one after the other,
\* the second with a warning, and both are in zoo.events.
C2_Witness ==
    /\ last.op = "schedule_event"
    /\ Warnings(last.log) # <<>>
    /\ Len(zoo.events) = 2
    /\ zoo.events[2] = last.arg
    /\ events_overlap(zoo.events[1], zoo.events[2])

\* C3: for any registry built by add_animal, add_staff and schedule_event,
\* saving it to a JSON file and then loading that file yields a registry with
\* as many animals, as many staff and as many events, and with the same
\* animal names in the same order.
C3_RoundTrip ==
    (last.op = "load" /\ suffix(last.arg) = "json" /\ file[last.arg].exists) =>
        LET saved == file[last.arg].saved_from
        IN  /\ last.ret.raised = ""
            /\ Len(last.ret.zoo.animals) = Len(saved.animals)
            /\ Len(last.ret.zoo.staff) = Len(saved.staff)
            /\ Len(last.ret.zoo.events) = Len(saved.events)
            /\ NamesOf(last.ret.zoo.animals) = NamesOf(saved.animals)

\* The place of snapshot[i] among the events of date d when they are put in
\* ascending start_time order, events of equal start_time in scheduling order.
Place(snapshot, d, i) ==
    1 + Cardinality({j \in StartingOn(snapshot, d) :
            \/ snapshot[j].start_time < snapshot[i].start_time
            \/ /\ snapshot[j].start_time = snapshot[i].start_time
               /\ j < i})

\* The lines of a run's trace that begin, delay and end an event.
EventSteps(trace) ==
    SelectSeq(trace,
              LAMBDA l : l.msg \in {"event_start", "sleep", "event_end"})

\* C4: run_day(d) processes exactly the events that were in zoo.events at
\* its call and start on date d, each once, in ascending start_time order,
\* events of equal start_time in scheduling order; it processes no event of
\* another date.
C4_RunOrder ==
    run.pc # "idle" =>
        LET d == run.target_date
            on == StartingOn(run.snapshot, d)
            done == Len(run.processed)
        IN  /\ done <= Cardinality(on)
            /\ run.pc = "done" => done = Cardinality(on)
            /\ \A i \in on :
                   Place(run.snapshot, d, i) <= done =>
                       run.processed[Place(run.snapshot, d, i)]
                           = run.snapshot[i]
            /\ \A k \in 1..done : DateOf(run.processed[k].start_time) = d
            /\ Len(SelectSeq(run.trace, LAMBDA l : l.msg = "event_start"))
                   = done

\* C4 witness: a finished run over three scheduled events processed two
\* different events of equal start_time and left out the third.
C4_Witness ==
    /\ run.pc = "done"
    /\ Len(run.snapshot) = 3
    /\ Len(run.processed) = 2
    /\ run.processed[1].start_time = run.processed[2].start_time
    /\ run.processed[1] # run.processed[2]

\* C5 as stated: two events are treated as overlapping exactly when their
\* half-open intervals [start_time, end_time) intersect, events of zero
\* duration included.
C5_HalfOpenForAll ==
    last.op = "events_overlap" =>
        (last.ret <=> HalfOpenIntersect(last.arg[1], last.arg[2]))

\* C5 as amended: two events of positive duration are treated as overlapping
\* exactly when their half-open intervals intersect (so not when one starts
\* exactly when the other ends); an event of zero duration is treated as
\* overlapping another event exactly when its start time lies strictly
\* between the other's start time and end time.
C5_OverlapRule ==
    last.op = "events_overlap" =>
        LET event1 == last.arg[1]
            event2 == last.arg[2]
        IN  last.ret <=>
                IF event1.duration > 0 /\ event2.duration > 0
                THEN HalfOpenIntersect(event1, event2)
                ELSE \/ /\ event1.duration = 0
                        /\ StrictlyInside(event1.start_time, event2)
                     \/ /\ event2.duration = 0
                        /\ StrictlyInside(event2.start_time, event1)

\* C5 witness: an event of zero duration was found to overlap another one.
C5_Witness ==
    /\ last.op = "events_overlap"
    /\ last.ret
    /\ last.arg[2].duration = 0

\* C6: schedule_event(e) logs a warning exactly when a scheduled event
\* overlaps e, and then exactly one, naming the first overlapping event in
\* scheduling order.
C6_FirstOverlapOnly ==
    [][last'.op = "schedule_event" =>
           LET event == last'.arg
               over == {i \in 1..Len(zoo.events) :
                            events_overlap(zoo.events[i], event)}
           IN  Warnings(last'.log) =
                   IF over = {} THEN <<>>
                   ELSE <<OverlapWarning(event, zoo.events[Min(over)])>>]_vars

\* C6 witness: both scheduled events overlap the event scheduled last, and
\* the one warning logged names the first of them.
C6_Witness ==
    /\ last.op = "schedule_event"
    /\ Len(zoo.events) = 3
    /\ events_overlap(zoo.events[1], last.arg)
    /\ events_overlap(zoo.events[2], last.arg)
    /\ OverlapWarning(last.arg, zoo.events[1])
           # OverlapWarning(last.arg, zoo.events[2])
    /\ Warnings(last.log) = <<OverlapWarning(last.arg, zoo.events[1])>>

\* C7: in run_day at most one event is in progress: each event's start is
\* followed by exactly one delay, of the fixed length whatever the event's
\* duration, and then by its completion, before the next event starts.
C7_OneAtATime ==
    LET steps == EventSteps(run.trace)
    IN  /\ \A p \in 1..Len(steps) :
               /\ steps[p].msg =
                      <<"event_start", "sleep", "event_end">>[((p - 1) % 3) + 1]
               /\ steps[p].subject = run.processed[((p - 1) \div 3) + 1].name
               /\ steps[p].msg = "sleep" => steps[p].t0 = SleepTenths
        /\ Len(steps) = 3 * Len(run.processed)
                           - (IF run.pc = "sleep" THEN 1 ELSE 0)

\* C7 witness: a finished run processed two events of different durations
\* whose scheduled intervals overlap.
C7_Witness ==
    /\ run.pc = "done"
    /\ Len(run.processed) = 2
    /\ events_overlap(run.processed[1], run.processed[2])
    /\ run.processed[1].duration # run.processed[2].duration

\* The lines of a run's trace that follow its last event_start line.
LastSegment(trace) ==
    LET starts == {p \in 1..Len(trace) : trace[p].msg = "event_start"}
        from == CHOOSE p \in starts : \A q \in starts : q <= p
    IN  SubSeq(trace, from + 1, Len(trace))

\* How many lines of seg with message msg are about the object ref.
CountFor(seg, msg, ref) ==
    Cardinality({p \in 1..Len(seg) : seg[p].msg = msg /\ seg[p].ref = ref})

\* C8 (step): when run_day begins an event, every animal of the feeding
\* subscription set eats the food_type of a FeedingEvent once, every animal
\* of the medical_check set gets one visit logged for a MedicalCheckEvent,
\* and nothing else is notified.
C8_BeginStep ==
    (run' # run /\ run'.pc = "sleep") =>
        LET event == run'.daily_events[run'.i]
            seg == LastSegment(run'.trace)
            feeding == event.cls = "FeedingEvent"
            medical == event.cls = "MedicalCheckEvent"
        IN  /\ \A animal \in AnimalObjs :
                   /\ CountFor(seg, "eat", animal.ref) =
                          IF feeding /\ animal \in zoo.subs.feeding
                          THEN 1 ELSE 0
                   /\ CountFor(seg, "medical_visit", animal.ref) =
                          IF medical /\ animal \in zoo.subs.medical_check
                          THEN 1 ELSE 0
            /\ Len(SelectSeq(seg, LAMBDA l : l.msg = "eat")) =
                   IF feeding THEN Cardinality(zoo.subs.feeding) ELSE 0
            /\ Len(SelectSeq(seg, LAMBDA l : l.msg = "medical_visit")) =
                   IF medical THEN Cardinality(zoo.subs.medical_check) ELSE 0
            /\ feeding =>
                   \A p \in 1..Len(seg) :
                       seg[p].msg = "eat" => seg[p].other = event.food_type

\* C8: in run_day a FeedingEvent makes every animal of the feeding
\* subscription set eat its food_type exactly once, a MedicalCheckEvent logs
\* one visit per animal of the medical_check set and feeds no animal, and a
\* TourEvent or plain ZooEvent notifies no animal.
C8_Dispatch == [][C8_BeginStep]_vars

\* C8 witness: a run that went through a plain ZooEvent with no output has
\* begun a FeedingEvent, and every animal of the registry has eaten.
C8_Witness ==
    /\ run.pc = "sleep"
    /\ run.i = 2
    /\ run.daily_events[1].cls = "ZooEvent"
    /\ run.daily_events[2].cls = "FeedingEvent"
    /\ zoo.subs.feeding = NotifyAnimals
    /\ Len(SelectSeq(run.trace, LAMBDA l : l.msg = "eat")) =
           Cardinality(NotifyAnimals)
    /\ Len(SelectSeq(run.trace, LAMBDA l : l.msg = "medical_visit")) = 0

\* C9: daily_report(d) lists exactly the events that start on date d, each
\* once, in ascending start_time order, and its scheduled-events line shows
\* their number.
C9_ReportListsTheDay ==
    last.op = "daily_report" =>
        LET d == last.arg
            lines == EventLines(last.ret)
            on == StartingOn(zoo.events, d)
            shows(l, e) ==
                l.num = HourMinute(e.start_time) /\ l.text = e.name
        IN  /\ Len(lines) = Cardinality(on)
            /\ \A i \in on :
                   Cardinality({k \in 1..Len(lines) :
                                    shows(lines[k], zoo.events[i])})
                   = Cardinality({j \in on :
                         /\ zoo.events[j].start_time = zoo.events[i].start_time
                         /\ zoo.events[j].name = zoo.events[i].name})
            /\ \A j, k \in 1..Len(lines) : j < k => lines[j].num <= lines[k].num
            /\ LineNums(last.ret, "events_scheduled") = {Cardinality(on)}

\* C9 witness: the report of a date lists an event, and leaves out an event
\* that starts on the date before and ends within the date.
C9_Witness ==
    /\ last.op = "daily_report"
    /\ EventLines(last.ret) # <<>>
    /\ \E i \in 1..Len(zoo.events) :
           /\ DateOf(zoo.events[i].start_time) < last.arg
           /\ end_time(zoo.events[i]) > last.arg * DayLen
    /\ Len(EventLines(last.ret)) < Len(zoo.events)

\* C10: for a date on which no scheduled event starts, daily_report holds
\* the no-events line, shows 0 scheduled events, and shows the lengths of
\* zoo.animals and zoo.staff as the totals.
C10_EmptyDayReport ==
    (/\ last.op = "daily_report"
     /\ StartingOn(zoo.events, last.arg) = {}) =>
        /\ \E l \in Range(last.ret) : l.kind = "no_events"
        /\ LineNums(last.ret, "events_scheduled") = {0}
        /\ LineNums(last.ret, "animals_total") = {Len(zoo.animals)}
        /\ LineNums(last.ret, "staff_total") = {Len(zoo.staff)}

\* C10 witness: a report for a date without events, of a registry that holds
\* animals, staff, and events on other dates.
C10_Witness ==
    /\ last.op = "daily_report"
    /\ StartingOn(zoo.events, last.arg) = {}
    /\ zoo.events # <<>>
    /\ Len(zoo.animals) = NumAnimals
    /\ Len(zoo.staff) = NumStaff

\* Whether a list of saved records holds one with an unknown type tag.
HasUnknown(records) == \E i \in 1..Len(records) : records[i].type = UnknownTag

\* C11: when a saved file holds a record with an unknown type tag, Zoo.load
\* raises and returns no registry if the record is an animal or a staff
\* member; if it is an event, that event alone is skipped with an error log,
\* and every other event of the file is loaded, in saved order, with all the
\* animals and staff.
C11_UnknownTag ==
    (last.op = "load" /\ file[last.arg].exists /\ suffix(last.arg) = "json") =>
        LET data == file[last.arg].data
            others == SelectSeq(data.events, LAMBDA r : r.type # UnknownTag)
        IN  /\ (HasUnknown(data.animals) \/ HasUnknown(data.staff)) =>
                   /\ last.ret.raised # ""
                   /\ "zoo" \notin DOMAIN last.ret
            /\ (/\ ~HasUnknown(data.animals)
                /\ ~HasUnknown(data.staff)
                /\ HasUnknown(data.events)) =>
                   /\ last.ret.raised = ""
                   /\ NamesOf(last.ret.zoo.animals) = NamesOf(data.animals)
                   /\ NamesOf(last.ret.zoo.staff) = NamesOf(data.staff)
                   /\ NamesOf(last.ret.zoo.events) = NamesOf(others)
                   /\ Len(SelectSeq(last.log, LAMBDA l : l.level = "error")) =
                          Len(data.events) - Len(others)

\* The saved event records that _deserialize_event turns into events: those
\* of the three event subclasses.
Restorable(records) ==
    SelectSeq(records, LAMBDA r : r.type \in {"FeedingEvent",
                                              "MedicalCheckEvent",
                                              "TourEvent"})

WithMatchingVersion(files, path) ==
    [files EXCEPT ![path].data =
                      [schema_version |-> SCHEMA_VERSION] @@ Unversioned(@)]

\* C13: loading an existing file in a supported format whose schema_version
\* is missing or differs from "1.0" prints one warning and returns the full
\* data: Zoo.load builds the registry it builds for the same file with the
\* matching version.
C13_VersionNotFatal ==
    (/\ last.op = "load"
     /\ file[last.arg].exists
     /\ suffix(last.arg) \in {"json", "pickle"}
     /\ get(file[last.arg].data, "schema_version", "") # SCHEMA_VERSION) =>
        LET matching == load(WithMatchingVersion(file, last.arg), last.arg)
            prints == SelectSeq(last.log, LAMBDA l : l.level = "print")
        IN  /\ Len(prints) = 1
            /\ prints[1].msg = "schema_mismatch"
            /\ last.ret.raised = ""
            /\ matching.raised = ""
            /\ last.ret.zoo = matching.zoo
            /\ Len(last.ret.zoo.animals) = Len(file[last.arg].data.animals)
            /\ Len(last.ret.zoo.staff) = Len(file[last.arg].data.staff)

\* C13 witness: a file with no schema version, or with version 0.9, was
\* loaded into a registry that holds animals, staff and an event.
C13_Witness ==
    /\ last.op = "load"
    /\ file[last.arg].exists
    /\ get(file[last.arg].data, "schema_version", "") \in OtherVersions
    /\ last.ret.raised = ""
    /\ Len(last.ret.zoo.animals) > 1
    /\ Len(last.ret.zoo.staff) > 0
    /\ Len(last.ret.zoo.events) > 0

\* C14: loading from a path that does not exist raises FileNotFoundError
\* before anything is read or parsed, whatever the suffix of the path, and
\* Zoo.load returns no registry.
C14_MissingFile ==
    (last.op = "load" /\ ~file[last.arg].exists) =>
        /\ last.ret.raised = "FileNotFoundError"
        /\ "zoo" \notin DOMAIN last.ret
        /\ last.log = <<>>

\* C14 witness: a load from a missing path with an unsupported suffix, next
\* to a file that exists, raised FileNotFoundError.
C14_Witness ==
    /\ last.op = "load"
    /\ ~file[last.arg].exists
    /\ suffix(last.arg) = "txt"
    /\ \E path \in Paths : file[path].exists
    /\ last.ret.raised = "FileNotFoundError"

\* C15 (step): a save in a format other than json, yaml or pickle raises
\* ValueError and leaves every path as it was.
C15_SaveStep ==
    (last'.op = "save" /\ last'.arg[2] \notin {"json", "yaml", "pickle"}) =>
        /\ last'.ret = "ValueError"
        /\ file' = file

\* C15 (state): a load of an existing file whose suffix is none of json,
\* pickle, yaml, yml raised ValueError and returned no registry.
C15_LoadState ==
    (/\ last.op = "load"
     /\ file[last.arg].exists
     /\ suffix(last.arg) \notin {"json", "pickle", "yaml", "yml"}) =>
        /\ last.ret.raised = "ValueError"
        /\ "zoo" \notin DOMAIN last.ret

\* C15: saving with a format other than json, yaml or pickle raises
\* ValueError and writes no data file at the path, and loading an existing
\* file whose suffix is none of json, pickle, yaml, yml raises ValueError.
C15_UnsupportedFormat == [](C15_LoadState) /\ [][C15_SaveStep]_vars

\* C15 witness: a save as xml was refused and left no file at its path,
\* while a file with the suffix txt exists.
C15_Witness ==
    /\ last.op = "save"
    /\ last.arg[2] = "xml"
    /\ last.ret = "ValueError"
    /\ ~file[last.arg[1]].exists
    /\ \E path \in Paths : suffix(path) = "txt" /\ file[path].exists

\* The species strings that name a cat.
CatSpecies == {"Cat", "cat", "CAT", "Kot"}

\* C17: a Mammal that is a cat reports "Meow" from make_sound and in the
\* line printed by animal_sound, also when its species is given as the
\* Cyrillic word the test uses.
C17_CatSaysMeow ==
    /\ \A animal \in Range(zoo.animals) :
           (animal.cls = "Mammal" /\ animal.species \in CatSpecies) =>
               make_sound(animal) = "Meow"
    /\ last.op = "animal_sound" =>
           \A i \in 1..Len(last.arg) :
               (last.arg[i].cls = "Mammal"
                    /\ last.arg[i].species \in CatSpecies) =>
                   last.ret[i].says = "Meow"

\* C18: make_sound of every Bird returns "Chirp!" and make_sound of every
\* Reptile returns "Hiss...", whatever the animal's fields and whatever was
\* done with the registry that holds it.
C18_BirdAndReptile ==
    /\ \A animal \in Range(zoo.animals) :
           /\ animal.cls = "Bird" => make_sound(animal) = "Chirp!"
           /\ animal.cls = "Reptile" => make_sound(animal) = "Hiss..."
    /\ last.op = "animal_sound" =>
           \A i \in 1..Len(last.arg) :
               /\ last.arg[i].cls = "Bird" => last.ret[i].says = "Chirp!"
               /\ last.arg[i].cls = "Reptile" => last.ret[i].says = "Hiss..."

\* C18 witness: animal_sound printed the lines of a registry that holds a
\* bird that cannot fly and a venomous reptile.
C18_Witness ==
    /\ last.op = "animal_sound"
    /\ last.arg = zoo.animals
    /\ \E i, j \in 1..Len(last.arg) :
           /\ last.arg[i].cls = "Bird" /\ ~last.arg[i].can_fly
           /\ last.ret[i].says = "Chirp!"
           /\ last.arg[j].cls = "Reptile" /\ last.arg[j].is_venomous
           /\ last.ret[j].says = "Hiss..."

\* Some autosave task is started and can still run.
AutosavePending == \E t \in 1..Len(auto.tasks) : Pending(auto.tasks[t])

\* C16: while an autosave task is pending, also while it sleeps, add_animal,
\* add_staff and schedule_event can be called and have the effect they have
\* without autosave; nothing of the storage takes part in them.
C16_NoLock ==
    AutosavePending =>
        /\ \A animal \in NotifyAnimals :
               ENABLED (AddAnimal(animal)
                        /\ zoo' = add_animal(zoo, animal).zoo)
        /\ \A staff \in StaffObjs :
               ENABLED (AddStaff(staff) /\ zoo' = add_staff(zoo, staff).zoo)
        /\ \A event \in AutosaveEvents :
               Len(zoo.events) < MaxEvents =>
                   ENABLED (ScheduleEvent(event)
                            /\ zoo' = schedule_event(zoo, event).zoo)

\* C16 witness: an autosave has just replaced the file a previous autosave
\* wrote from a different registry, and its task sleeps again.
C16_Witness ==
    /\ last.op = "autosave_wake"
    /\ last.ret.saved
    /\ last.ret.before.exists
    /\ last.ret.before.saved_from # zoo
    /\ auto.tasks[last.arg].pc = "sleep"

\* A step of task t that writes nothing.
NoSaveBy(t) == last'.op = "autosave_wake" /\ last'.arg = t =>
                   ~last'.ret.saved /\ file' = file

C19_Step ==
    /\ \A t \in 1..Len(auto.tasks) :
           auto.tasks[t].stopped => NoSaveBy(t) /\ ~Pending(auto.tasks[t])
    /\ last'.op = "stop_autosave" /\ auto.autosave_task = 0 =>
           auto' = auto /\ file' = file /\ zoo' = zoo

\* C19: a task that stop_autosave found as the current one never saves again
\* and never runs again; stop_autosave without a current task changes
\* neither the storage, the files nor the registry.
C19_StopAutosave == [][C19_Step]_vars

\* C19 witness: a task was stopped, and afterwards a later task has saved.
C19_Witness ==
    /\ \E t \in 1..Len(auto.tasks) : auto.tasks[t].stopped
    /\ last.op = "autosave_wake"
    /\ last.ret.saved

\* C20: a storage whose autosave_interval is 0 or negative never has a task,
\* and no file is ever written.
C20_NoInterval ==
    auto.autosave_interval <= 0 =>
        /\ auto.tasks = <<>>
        /\ auto.autosave_task = 0
        /\ \A path \in Paths : ~file[path].exists

\* C20 witness: start_autosave has returned on such a storage whose zoo has
\* an animal.
C20_Witness ==
    /\ auto.autosave_interval <= 0
    /\ last.op = "start_autosave"
    /\ zoo.animals # <<>>

\* What add_visitors(count) on the tour at position i must do.
C21_Step ==
    last'.op = "add_visitors" =>
        LET i == last'.arg[1]
            count == last'.arg[2]
            before == zoo.events[i]
            after == zoo'.events[i]
        IN  before.max_visitors >= 0 =>
                IF before.visitor_count + count <= before.max_visitors
                THEN /\ last'.ret = TRUE
                     /\ after.visitor_count = before.visitor_count + count
                ELSE /\ last'.ret = FALSE
                     /\ after = before

C21_Capacity ==
    \A i \in 1..Len(zoo.events) :
        zoo.events[i].cls = "TourEvent" /\ zoo.events[i].max_visitors >= 0 =>
            zoo.events[i].visitor_count <= zoo.events[i].max_visitors

\* C21: on a tour with max_visitors >= 0, add_visitors(count) adds count and
\* returns True exactly when the sum fits, else returns False and changes
\* nothing; visitor_count never exceeds max_visitors.
C21_AddVisitors == [](C21_Capacity) /\ [][C21_Step]_vars

\* C21 witness: a call was refused on a tour that is full after an accepted
\* call.
C21_Witness ==
    /\ last.op = "add_visitors"
    /\ last.ret = FALSE
    /\ zoo.events[1].max_visitors > 0
    /\ zoo.events[1].visitor_count = zoo.events[1].max_visitors

\* The subscriptions of registry z are those of its animals.
SubscribedAll(z) ==
    /\ z.subs.feeding = Range(z.animals)
    /\ z.subs.medical_check = Range(z.animals)
    /\ z.subs.enrichment = {}

\* C22: in a registry built by add_animal calls, repeated ones included, and
\* in every registry Zoo.load returns, the feeding and the medical_check
\* subscriptions are the set of the animals and enrichment is empty.
C22_Subscriptions ==
    /\ SubscribedAll(zoo)
    /\ last.op = "load" /\ last.ret.raised = "" => SubscribedAll(last.ret.zoo)

\* C22 witness: a registry holding every animal was saved, and the load of
\* that file has returned a registry with as many animals.
C22_Witness ==
    /\ last.op = "load"
    /\ last.ret.raised = ""
    /\ Len(last.ret.zoo.animals) = NumAnimals
    /\ Len(zoo.animals) = NumAnimals
    /\ file[last.arg].saved_from = zoo

C23_BeginStep ==
    (run' # run /\ run'.pc = "sleep"
     /\ run'.daily_events[run'.i].cls = "FeedingEvent") =>
        LET seg == LastSegment(run'.trace)
        IN  /\ \A animal \in AnimalObjs :
                   CountFor(seg, "eat", animal.ref) =
                       IF animal \in Range(zoo.animals) THEN 1 ELSE 0
            /\ Len(SelectSeq(seg, LAMBDA l : l.msg = "eat")) =
                   Len(zoo.animals)

\* C23: when run_day begins a FeedingEvent, the animals that eat are the
\* animals the registry holds at that step, each once, whatever the event's
\* own animals list holds.
C23_FeedsTheRegistry == [][C23_BeginStep]_vars

\* C23 witness: with two animals in the registry a run has gone through the
\* feeding that lists one of them and has begun the feeding that lists none,
\* and both animals have eaten both times.
C23_Witness ==
    /\ run.pc = "sleep"
    /\ run.i = 2
    /\ run.daily_events[1].animals = <<AnimalObj(1)>>
    /\ run.daily_events[2].animals = <<>>
    /\ Range(zoo.animals) = NotifyAnimals
    /\ \A animal \in NotifyAnimals :
           CountFor(run.trace, "eat", animal.ref) = 2

\* The events of evs that the storage restores with their class.
TypedEvents(evs) ==
    SelectSeq(evs, LAMBDA e : e.cls \in {"FeedingEvent", "MedicalCheckEvent",
                                         "TourEvent"})

\* Animal names and staff_ids are unique within registry z.
UniqueKeys(z) ==
    /\ \A i, j \in 1..Len(z.animals) :
           z.animals[i].name = z.animals[j].name => i = j
    /\ \A i, j \in 1..Len(z.staff) :
           z.staff[i].staff_id = z.staff[j].staff_id => i = j

\* Every event of z references only animals and staff of z.
ReferencesInside(z) ==
    \A i \in 1..Len(z.events) :
        /\ Range(z.events[i].animals) \subseteq Range(z.animals)
        /\ Range(z.events[i].staff) \subseteq Range(z.staff)

StaffIds(staff) == {staff[i].staff_id : i \in 1..Len(staff)}

\* C24: when a file saved from a registry with unique animal names and
\* staff_ids, whose events reference only its own animals and staff, is
\* loaded, the FeedingEvents, MedicalCheckEvents and TourEvents come back
\* one for one with the same class, name, start_time, duration, location,
\* set of animal names and set of staff_ids.
C24_EventReferences ==
    (last.op = "load" /\ last.ret.raised = "" /\ file[last.arg].exists) =>
        LET saved == file[last.arg].saved_from
            before == TypedEvents(saved.events)
            after == TypedEvents(last.ret.zoo.events)
        IN  (UniqueKeys(saved) /\ ReferencesInside(saved)) =>
                /\ Len(after) = Len(before)
                /\ \A i \in 1..Len(before) :
                       /\ after[i].cls = before[i].cls
                       /\ after[i].name = before[i].name
                       /\ after[i].start_time = before[i].start_time
                       /\ after[i].duration = before[i].duration
                       /\ after[i].location = before[i].location
                       /\ Range(NamesOf(after[i].animals)) =
                              Range(NamesOf(before[i].animals))
                       /\ StaffIds(after[i].staff) = StaffIds(before[i].staff)

\* C24 witness: the loaded file was saved from a registry that holds every
\* animal and staff member its events reference; a feeding off the start of
\* the day, a check-up and a tour came back, each with what it references.
C24_Witness ==
    /\ last.op = "load"
    /\ last.ret.raised = ""
    /\ file[last.arg].exists
    /\ ReferencesInside(file[last.arg].saved_from)
    /\ \E i, j \in 1..Len(last.ret.zoo.events) :
           /\ last.ret.zoo.events[i].cls = "FeedingEvent"
           /\ last.ret.zoo.events[i].animals # <<>>
           /\ last.ret.zoo.events[i].staff # <<>>
           /\ last.ret.zoo.events[j].cls = "TourEvent"
           /\ last.ret.zoo.events[j].staff # <<>>
           /\ HourMinute(last.ret.zoo.events[i].start_time) # 0
    /\ \E i \in 1..Len(last.ret.zoo.events) :
           /\ last.ret.zoo.events[i].cls = "MedicalCheckEvent"
           /\ last.ret.zoo.events[i].animals # <<>>
           /\ last.ret.zoo.events[i].duration = MaxDur

\* The tasks whose loop can perform a save at its next wake.
AbleToSave ==
    {t \in 1..Len(auto.tasks) : ENABLED (AutosaveWake(t) /\ last'.ret.saved)}

\* C25: at most one autosave loop of the storage is able to perform a save.
C25_OneLoop == Cardinality(AbleToSave) <= 1

\* A schedule_event while the run is suspended leaves the run as it is and
\* appends the event to the registry.
C26_ScheduleStep ==
    (run.pc = "sleep" /\ last'.op = "schedule_event") =>
        /\ run' = run
        /\ zoo'.events = Append(zoo.events, last'.arg)

\* The run works on the events its day had when it started.
C26_InitialList ==
    run.pc # "idle" =>
        /\ Len(run.daily_events) =
               Cardinality(StartingOn(run.snapshot, run.target_date))
        /\ \A k \in 1..Len(run.daily_events) :
               run.daily_events[k] \in Range(run.snapshot)
        /\ Len(run.snapshot) <= Len(zoo.events)
        /\ SubSeq(zoo.events, 1, Len(run.snapshot)) = run.snapshot
        /\ Len(run.processed) <= Len(run.daily_events)
        /\ run.processed = SubSeq(run.daily_events, 1, Len(run.processed))
        /\ run.pc = "done" => run.processed = run.daily_events

\* C26: an event scheduled while run_day is suspended is appended to
\* zoo.events and is not processed by that run, which goes through exactly
\* the events its day had when it started.
C26_ListTakenOnce == [](C26_InitialList) /\ [][C26_ScheduleStep]_vars

\* C26 witness: a run has just finished; while it was suspended an event was
\* scheduled on its date with a start time after that of the last event the
\* run processed, and it is in zoo.events.
C26_Witness ==
    /\ run.pc = "done"
    /\ last.op = "run_day"
    /\ run.processed # <<>>
    /\ Len(zoo.events) > Len(run.snapshot)
    /\ LET event == zoo.events[Len(run.snapshot) + 1]
       IN  /\ DateOf(event.start_time) = run.target_date
           /\ event.start_time >
                  run.processed[Len(run.processed)].start_time

\* An autosave that saves does not change the registry.
C27_WakeStep ==
    (last'.op = "autosave_wake" /\ last'.ret.saved) => zoo' = zoo

\* Right after an autosave that saved, the records of its file are those of
\* the registry.
C27_Written ==
    (last.op = "autosave_wake" /\ last.ret.saved) =>
        LET data == file[auto.tasks[last.arg].path].data
        IN  /\ data.animals =
                   [i \in 1..Len(zoo.animals) |->
                       serialize_animal(zoo.animals[i])]
            /\ data.staff =
                   [i \in 1..Len(zoo.staff) |-> serialize_staff(zoo.staff[i])]
            /\ data.events =
                   [i \in 1..Len(zoo.events) |->
                       serialize_event(zoo.events[i])]

\* C27: an autosave that saves is one step in which the registry does not
\* change, and the animal, staff and event records it writes are all those
\* of the registry of that step.
C27_OneSnapshot == [](C27_Written) /\ [][C27_WakeStep]_vars

\* C27 witness: an autosave has written a registry that holds an animal, a
\* staff member and an event over a file saved from an earlier registry.
C27_Witness ==
    /\ last.op = "autosave_wake"
    /\ last.ret.saved
    /\ zoo.animals # <<>>
    /\ zoo.staff # <<>>
    /\ zoo.events # <<>>
    /\ last.ret.before.exists
    /\ last.ret.before.saved_from.animals # zoo.animals
    /\ file[auto.tasks[last.arg].path].saved_from = zoo

IsPrefix(s, t) == Len(s) <= Len(t) /\ SubSeq(t, 1, Len(s)) = s

\* Each list after a step starts with the list before it; the calls that
\* only read leave the three lists as they are.
C28_ListStep ==
    /\ IsPrefix(zoo.animals, zoo'.animals)
    /\ IsPrefix(zoo.staff, zoo'.staff)
    /\ IsPrefix(zoo.events, zoo'.events)
    /\ last'.op \in {"daily_report", "notify_animals", "save", "run_day"} =>
           /\ zoo'.animals = zoo.animals
           /\ zoo'.staff = zoo.staff
           /\ zoo'.events = zoo.events

\* C28: a registry starts with empty animals, staff and events; every call
\* leaves each list's earlier value a prefix of its new value, and
\* daily_report, notify_animals, save and run_day leave the lists unchanged.
C28_AppendOnly ==
    /\ zoo.animals = <<>> /\ zoo.staff = <<>> /\ zoo.events = <<>>
    /\ [][C28_ListStep]_vars

\* C28 witness: a run has finished on a registry that holds an animal, a
\* staff member and two events planned latest first, after a save.
C28_Witness ==
    /\ run.pc = "done"
    /\ last.op = "run_day"
    /\ Len(run.processed) = 2
    /\ zoo.animals # <<>>
    /\ zoo.staff # <<>>
    /\ Len(zoo.events) = 2
    /\ zoo.events[1].start_time > zoo.events[2].start_time
    /\ \E path \in JsonPaths : file[path].exists

====
